---- MODULE Spec2Model ----
(***************************************************************************)
(* State-machine model of seegpy/io/read.py: the two trace readers         *)
(* read_trc (Micromed TRC container, through neo) and read_pramat (matlab  *)
(* header + raw files, through h5py / scipy / mat73).                       *)
(*                                                                         *)
(* One call is modelled at a time.  Each action is one block of the        *)
(* function body; what the files and the third-party decoders hand back is *)
(* drawn from small sets at the step where the code reads it.              *)
(***************************************************************************)
EXTENDS Integers, Sequences, FiniteSets, TLC

\* ------------------------------------------------------------------ bounds
MaxChan == 2      \* channels listed by a header / a container
MaxSamples == 3   \* samples on the trigger line, events in a TRC event stream
MaxCode == 2      \* largest trigger code

VARIABLES op, pc, err, log, handles, fs, loc, att, src, ret

vars == <<op, pc, err, log, handles, fs, loc, att, src, ret>>

\* ----------------------------------------------------------- small helpers
Range(s) == {s[i] : i \in 1..Len(s)}

SeqsUpTo(S, n) == UNION {[1..k -> S] : k \in 0..n}

\* indices (1-based) of the nonzero entries of d, increasing: np.where(d)[0]
RECURSIVE WhereFrom(_, _)
WhereFrom(d, j) ==
    IF j > Len(d) THEN <<>>
    ELSE (IF d[j] # 0 THEN <<j>> ELSE <<>>) \o WhereFrom(d, j + 1)

Where(d) == WhereFrom(d, 1)

\* a[idx]: integer-array indexing
Take(a, idx) == [k \in 1..Len(idx) |-> a[idx[k]]]

\* a[mask]: boolean-mask indexing
RECURSIVE MaskFrom(_, _, _)
MaskFrom(a, mask, j) ==
    IF j > Len(mask) THEN <<>>
    ELSE (IF mask[j] THEN <<a[j]>> ELSE <<>>) \o MaskFrom(a, mask, j + 1)

Compress(a, mask) == MaskFrom(a, mask, 1)

\* np.arange(n), as the 1-based positions 1..n
Arange(n) == [i \in 1..n |-> i]

\* ------------------------------------------------------------ channel names
\* A channel name is <<letters, number>>; the letters may carry lower case
\* and blanks, which the readers normalise.
\* str.upper() on the letters of a name
UpperLetters(l) ==
    CASE l = "a" -> "A"
      [] l = "A" -> "A"
      [] l = " a" -> " A"
      [] OTHER -> l

\* str.replace(' ', '').strip() on the letters of a name
StripLetters(l) ==
    CASE l = " a" -> "a"
      [] l = " A" -> "A"
      [] OTHER -> l

Upper(nm) == <<UpperLetters(nm[1]), nm[2]>>

\* sig.name.replace(' ', '').strip().upper()
NormaliseTrc(nm) == <<UpperLetters(StripLetters(nm[1])), nm[2]>>

\* the names a file lists for n channels: channel i is numbered i
NameLists(n) == {[i \in 1..n |-> <<"a", i>>]}

TrcNameLists(n) == {[i \in 1..n |-> <<l, i>>] : l \in {"a", " a"}}

\* the unit strings of n signals: all microvolt, or the last one millivolt
UnitLists(n) ==
    {[i \in 1..n |-> "uV"], [i \in 1..n |-> IF i = n THEN "mV" ELSE "uV"]}

\* ------------------------------------------------------------ numeric text
\* An event label is a decimal string, held as its digits.
RECURSIVE ParseInt(_)
ParseInt(ds) ==
    IF Len(ds) = 0 THEN 0
    ELSE 10 * ParseInt(SubSeq(ds, 1, Len(ds) - 1)) + ds[Len(ds)]

Labels == {<<d>> : d \in 0..MaxCode} \cup {<<0, 1>>}

\* A stored trigger sample is a float, held in halves (h stands for h / 2).
\* np.round rounds half to even.
RoundHalfEven(h) ==
    IF h % 2 = 0 THEN h \div 2
    ELSE LET k == (h - 1) \div 2 IN IF k % 2 = 0 THEN k ELSE k + 1

StoredSamples == {2 * k : k \in 0..MaxCode} \cup {2 * MaxCode - 1}

\* The time axes of n samples: the sample index, or a constant (an axis that
\* does not increase).
TimeAxes(n) == {[i \in 1..n |-> i - 1], [i \in 1..n |-> 0]}

\* ------------------------------------------------- trigger line (read_pramat)
\* np.round(f['raw'][-1, :]).astype(int)
RoundLine(stored) == [i \in 1..Len(stored) |-> RoundHalfEven(stored[i])]

\* .squeeze() turns a one-sample line (and a one-sample time axis) into a
\* 0-d array, and slicing a 0-d array raises IndexError.
Sliceable(a) == Len(a) # 1

\* trig_event[1::] - trig_event[:-1]
Diff(te) == [j \in 1..(Len(te) - 1) |-> te[j + 1] - te[j]]

\* Variant of FirstOnly without the + 1 that maps a position of the difference
\* array back to a position of the line.
FirstOnlyNoOffset(te) == Where(Diff(te))

\* np.where(...)[0] + 1: the positions whose value differs from the one before
FirstOnly(te) == LET w == Where(Diff(te)) IN [k \in 1..Len(w) |-> w[k] + 1]

\* trig_event != 0
NonZero(ev) == [i \in 1..Len(ev) |-> ev[i] # 0]

\* lines 243-251 as a whole; stored and times have the same length
TrigExtract(stored, times) ==
    LET te == RoundLine(stored)
        first_only == FirstOnly(te)
        ev == Take(te, first_only)
        tm == Take(times, first_only)
        nnz == NonZero(ev)
    IN [trig_event |-> Compress(ev, nnz), trig_time |-> Compress(tm, nnz)]

\* ---------------------------------------------------------------- the state
NoDir == [exists |-> FALSE, files |-> {}]

Dir(files) == [exists |-> TRUE, files |-> files]

FsInit == [isfile |-> FALSE, isdir |-> FALSE, headDir |-> NoDir, rawDir |-> NoDir]

LocInit ==
    [files_raw |-> {}, path_raw |-> "", cn |-> <<>>, ct |-> <<>>, f |-> "unbound",
     fc |-> "unbound",
     ch_names |-> <<>>, ch_units |-> <<>>, is_seeg |-> <<>>,
     seeg_chan |-> <<>>, seeg_nb |-> <<>>]

AttInit ==
    [tried |-> <<>>, raised |-> {}, yielded |-> {}, cnFrom |-> "none", ctFrom |-> "none"]

SrcInit == [line |-> <<>>, times |-> <<>>, rows |-> 0, labels |-> <<>>]

RetInit == [raw |-> <<>>, seeg_chan |-> <<>>, trig_event |-> <<>>, trig_time |-> <<>>]

Init ==
    /\ op = "none"
    /\ pc = "idle"
    /\ err = "none"
    /\ log = <<>>
    /\ handles = {}
    /\ fs = FsInit
    /\ loc = LocInit
    /\ att = AttInit
    /\ src = SrcInit
    /\ ret = RetInit

\* An exception leaves the function.  The frame, kept alive by the traceback,
\* still refers to its locals, so the handles they hold stay open.
Raise(kind) ==
    /\ pc' = "failed"
    /\ err' = kind

\* logger.error(msg)
LogError(msg) == Append(log, [level |-> "ERROR", msg |-> msg])

\* ------------------------------------------------------------------ read_trc
\* lines 108-116: assert op.isfile(bloc); open the container lazily, read sf.
\* The neo readers are plain objects to this module, which opens no file of
\* its own here.
TrcStart ==
    /\ pc = "idle"
    /\ op' = "read_trc"
    /\ \E isfile \in BOOLEAN :
        /\ fs' = [fs EXCEPT !.isfile = isfile]
        /\ IF ~isfile
           THEN Raise("AssertionError")
           ELSE pc' = "trc_contacts" /\ UNCHANGED err
    /\ UNCHANGED <<log, handles, loc, att, src, ret>>

\* line 122 and read_contacts_trc (58-68): the normalised names and the units.
\* The container read_contacts_trc opens is its own local and is gone when it
\* returns.
TrcContacts ==
    /\ pc = "trc_contacts"
    /\ \E n \in 1..MaxChan :
         \E names \in TrcNameLists(n), units \in UnitLists(n) :
            loc' = [loc EXCEPT
                      !.ch_names = [i \in 1..n |-> NormaliseTrc(names[i])],
                      !.ch_units = units]
    /\ pc' = "trc_classify"
    /\ UNCHANGED <<op, err, log, handles, fs, att, src, ret>>

\* detect_seeg_contacts(ch_names, ch_units=..., seeg_unit='uV'): a boolean mask
\* of the length of ch_names
Classify(names, units) == [1..Len(names) -> BOOLEAN]

\* lines 124-126
TrcClassify ==
    /\ pc = "trc_classify"
    /\ \E is_seeg \in Classify(loc.ch_names, loc.ch_units) :
         loc' = [loc EXCEPT
                   !.is_seeg = is_seeg,
                   !.seeg_chan = Compress(loc.ch_names, is_seeg),
                   !.seeg_nb = Compress(Arange(Len(loc.ch_names)), is_seeg)]
    /\ pc' = "trc_load"
    /\ UNCHANGED <<op, err, log, handles, fs, att, src, ret>>

\* Variant of TrcEvents that collapses repeated codes and drops zero codes,
\* as read_pramat does with its trigger line.
TrcEventsFiltered(labels, times) ==
    LET te == [i \in 1..Len(labels) |-> ParseInt(labels[i])]
        first_only == FirstOnly(te)
        ev == Take(te, first_only)
        tm == Take(times, first_only)
    IN [trig_event |-> Compress(ev, NonZero(ev)), trig_time |-> Compress(tm, NonZero(ev))]

\* lines 136-137: the event labels converted to int, the event times as read
TrcEvents(labels, times) ==
    [trig_event |-> [i \in 1..Len(labels) |-> ParseInt(labels[i])],
     trig_time |-> times]

\* lines 139-142: np.stack of the selected signals; signal c is stood for by
\* its position c.  np.stack of an empty list raises ValueError.
TrcStack(seeg_nb) == [k \in 1..Len(seeg_nb) |-> seeg_nb[k]]

\* lines 132-144: reopen the container in full, read the events and the raw
\* signals, return
TrcLoad ==
    /\ pc = "trc_load"
    /\ \E n \in 0..MaxSamples :
         \E labels \in [1..n -> Labels], times \in TimeAxes(n) :
            /\ src' = [src EXCEPT !.labels = labels, !.times = times,
                                  !.rows = Len(loc.ch_names)]
            /\ IF Len(loc.seeg_nb) = 0
               THEN /\ Raise("ValueError")
                    /\ UNCHANGED ret
               ELSE /\ ret' = [raw |-> TrcStack(loc.seeg_nb),
                               seeg_chan |-> loc.seeg_chan,
                               trig_event |-> TrcEvents(labels, times).trig_event,
                               trig_time |-> TrcEvents(labels, times).trig_time]
                    /\ pc' = "done"
                    /\ UNCHANGED err
    /\ UNCHANGED <<op, log, handles, fs, loc, att>>

\* --------------------------------------------------------------- read_pramat
\* lines 168-170: assert op.isdir(mat_root)
PramatStart ==
    /\ pc = "idle"
    /\ op' = "read_pramat"
    /\ \E isdir \in BOOLEAN :
        /\ fs' = [fs EXCEPT !.isdir = isdir]
        /\ IF ~isdir
           THEN Raise("AssertionError")
           ELSE pc' = "pm_head" /\ UNCHANGED err
    /\ UNCHANGED <<log, handles, loc, att, src, ret>>

\* Variant of SingleFile that only rejects an empty listing.
AtLeastOneFile(files) == Cardinality(files) >= 1

\* lines 177 and 185: assert len(files) == 1
SingleFile(files) == Cardinality(files) = 1

HeadDirs == {NoDir} \cup {Dir(S) : S \in {{}, {"H.mat"}, {"H.mat", "H2.mat"}}}

\* lines 175-178: os.listdir(alignedData) raises FileNotFoundError when the
\* directory is missing; assert len(files_head) == 1
PramatHead ==
    /\ pc = "pm_head"
    /\ \E d \in HeadDirs :
        /\ fs' = [fs EXCEPT !.headDir = d]
        /\ IF ~d.exists
           THEN Raise("FileNotFoundError")
           ELSE IF ~SingleFile(d.files)
                THEN Raise("AssertionError")
                ELSE pc' = "pm_raw" /\ UNCHANGED err
    /\ UNCHANGED <<op, log, handles, loc, att, src, ret>>

RawDirs ==
    {NoDir} \cup {Dir(S) : S \in {{}, {"a.mat"}, {"a.mat", "b.mat"},
                                  {"a.mat", "iEEG.mat"}}}

\* Variant of NarrowRaw that keeps one of the listed entries.
NarrowRawListed(files) ==
    IF Cardinality(files) > 1 THEN {CHOOSE x \in files : TRUE} ELSE files

\* lines 182-183: more than one entry is replaced by ['iEEG.mat']
NarrowRaw(files) == IF Cardinality(files) > 1 THEN {"iEEG.mat"} ELSE files

\* lines 180-186
PramatRaw ==
    /\ pc = "pm_raw"
    /\ \E d \in RawDirs :
        /\ fs' = [fs EXCEPT !.rawDir = d]
        /\ IF ~d.exists
           THEN Raise("FileNotFoundError") /\ UNCHANGED <<log, loc>>
           ELSE LET files_raw == NarrowRaw(d.files) IN
                /\ log' = IF Cardinality(d.files) > 1
                          THEN LogError("Multiple matlab files detected. Forcing iEEG.mat")
                          ELSE log
                /\ IF ~SingleFile(files_raw)
                   THEN /\ Raise("AssertionError")
                        /\ loc' = [loc EXCEPT !.files_raw = files_raw]
                   ELSE /\ loc' = [loc EXCEPT !.files_raw = files_raw,
                                     !.path_raw = CHOOSE x \in files_raw : TRUE]
                        /\ pc' = "pm_hdf5"
                        /\ UNCHANGED err
    /\ UNCHANGED <<op, handles, att, src, ret>>

Types == {"SEEG", "ECG"}

\* What one header backend does with the header file: the point where it
\* raises ("ok": it does not), the name list and the type list it decodes.
\*   "open"       the file cannot be opened / loaded, or holds no 'H'
\*   "channels"   H is bound to f, H['channels'] raises
\*   "name"       decoding the names raises
\*   "signalType" the names are assigned to cn, decoding the types raises
Outcomes ==
    [stage : {"open", "channels", "name", "signalType", "ok"},
     names : UNION {NameLists(n) : n \in 0..MaxChan},
     types : SeqsUpTo(Types, MaxChan)]

\* cn and ct after an attempt: each is assigned only when its own statement
\* completes
CnAfter(cn, o) == IF o.stage \in {"signalType", "ok"} THEN o.names ELSE cn

CtAfter(ct, o) == IF o.stage = "ok" THEN o.types ELSE ct

\* f after an attempt by backend b: f is rebound once the 'H' lookup succeeds
FAfter(f, b, o) == IF o.stage = "open" THEN f ELSE b

\* fc after an attempt by backend b: fc is rebound once f['channels'] succeeds
FcAfter(fc, b, o) == IF o.stage \in {"open", "channels"} THEN fc ELSE b

\* h5py.File is never closed by the code: an HDF5 file stays open for as long
\* as a local (f, fc) refers to it or to a group of it, and is released when
\* the last such local is rebound or the function returns.
HandlesOf(f, fc) ==
    (IF f = "hdf5" \/ fc = "hdf5" THEN {"head"} ELSE {})
        \cup (IF f = "raw" THEN {"raw"} ELSE {})

\* Bookkeeping of the attempts made so far: the backends invoked, in order;
\* those that raised; those that ran to completion with a non-empty name and
\* type list; and the backend whose attempt assigned the current cn and ct.
AttAfter(b, o) ==
    [tried |-> Append(att.tried, b),
     raised |-> IF o.stage = "ok" THEN att.raised ELSE att.raised \cup {b},
     yielded |-> IF o.stage = "ok" /\ Len(o.names) > 0 /\ Len(o.types) > 0
                 THEN att.yielded \cup {b} ELSE att.yielded,
     cnFrom |-> IF o.stage \in {"signalType", "ok"} THEN b ELSE att.cnFrom,
     ctFrom |-> IF o.stage = "ok" THEN b ELSE att.ctFrom]

\* lines 192-202: the HDF5 attempt, any exception caught and logged
PramatHDF5 ==
    /\ pc = "pm_hdf5"
    /\ \E o \in Outcomes :
        /\ loc' = [loc EXCEPT !.cn = CnAfter(<<>>, o), !.ct = CtAfter(<<>>, o),
                              !.f = FAfter(loc.f, "hdf5", o),
                              !.fc = FcAfter(loc.fc, "hdf5", o)]
        /\ handles' = HandlesOf(FAfter(loc.f, "hdf5", o), FcAfter(loc.fc, "hdf5", o))
        /\ att' = AttAfter("hdf5", o)
        /\ log' = IF o.stage = "ok" THEN log
                  ELSE LogError("Extraction failed with HDF5. Trying with scipy")
    /\ pc' = "pm_scipy"
    /\ UNCHANGED <<op, err, fs, src, ret>>

\* Variant of NeedNext with "or" for "and".
NeedNextEither(cn, ct) == Len(cn) = 0 \/ Len(ct) = 0

\* lines 206 and 219: the test that lets the next backend run
NeedNext(cn, ct) == Len(cn) = 0 /\ Len(ct) = 0

\* lines 206-215: the scipy attempt, any exception caught and logged
PramatScipy ==
    /\ pc = "pm_scipy"
    /\ IF NeedNext(loc.cn, loc.ct)
       THEN \E o \in Outcomes :
               /\ loc' = [loc EXCEPT !.cn = CnAfter(loc.cn, o),
                                     !.ct = CtAfter(loc.ct, o),
                                     !.f = FAfter(loc.f, "scipy", o),
                                     !.fc = FcAfter(loc.fc, "scipy", o)]
               /\ handles' = HandlesOf(FAfter(loc.f, "scipy", o), FcAfter(loc.fc, "scipy", o))
               /\ att' = AttAfter("scipy", o)
               /\ log' = IF o.stage = "ok" THEN log
                         ELSE LogError("Extraction failed with scipy. Trying with mat73")
       ELSE UNCHANGED <<loc, handles, att, log>>
    /\ pc' = "pm_mat73"
    /\ UNCHANGED <<op, err, fs, src, ret>>

\* lines 219-224: the mat73 attempt, outside any try: an exception leaves
\* read_pramat
PramatMat73 ==
    /\ pc = "pm_mat73"
    /\ IF NeedNext(loc.cn, loc.ct)
       THEN \E o \in Outcomes :
               /\ loc' = [loc EXCEPT !.cn = CnAfter(loc.cn, o),
                                     !.ct = CtAfter(loc.ct, o),
                                     !.f = FAfter(loc.f, "mat73", o),
                                     !.fc = FcAfter(loc.fc, "mat73", o)]
               /\ handles' = HandlesOf(FAfter(loc.f, "mat73", o), FcAfter(loc.fc, "mat73", o))
               /\ att' = AttAfter("mat73", o)
               /\ IF o.stage = "ok"
                  THEN pc' = "pm_classify" /\ UNCHANGED err
                  ELSE Raise("DecodeError")
       ELSE /\ pc' = "pm_classify"
            /\ UNCHANGED <<loc, handles, att, err>>
    /\ UNCHANGED <<op, log, fs, src, ret>>

\* Variant of HeaderAsserts without the two non-emptiness assertions.
HeaderAssertsLengthOnly(cn, ct) == Len(cn) = Len(ct)

\* lines 227-229
HeaderAsserts(cn, ct) == Len(cn) > 0 /\ Len(ct) > 0 /\ Len(cn) = Len(ct)

\* line 231: np.array(ct) == 'SEEG'
IsSeeg(ct) == [i \in 1..Len(ct) |-> ct[i] = "SEEG"]

\* lines 227-232
PramatClassify ==
    /\ pc = "pm_classify"
    /\ IF ~HeaderAsserts(loc.cn, loc.ct)
       THEN Raise("AssertionError") /\ UNCHANGED loc
       ELSE LET ch_names == [i \in 1..Len(loc.cn) |-> Upper(loc.cn[i])]
                is_seeg == IsSeeg(loc.ct)
            IN /\ loc' = [loc EXCEPT !.ch_names = ch_names, !.is_seeg = is_seeg,
                                     !.seeg_chan = Compress(ch_names, is_seeg)]
               /\ pc' = "pm_data"
               /\ UNCHANGED err
    /\ UNCHANGED <<op, log, handles, fs, att, src, ret>>

\* line 253: f['raw'][is_seeg, :]; row r of the file is stood for by its
\* position r, and the mask picks the rows at its true positions
SelectRows(rows, is_seeg) == Compress(Arange(rows), is_seeg)

\* lines 238-255: open the raw file, read the time axis and the trigger line
\* (the last row), extract the events, select the raw rows, return.  The raw
\* matrix holds the listed channels, the trigger line being the last listed
\* channel or one more row after them.
PramatData ==
    /\ pc = "pm_data"
    /\ IF loc.path_raw \notin fs.rawDir.files
       THEN /\ Raise("OSError")
            /\ UNCHANGED <<loc, handles, src, ret>>
       ELSE \E n \in 0..MaxSamples, rows \in {Len(loc.cn), Len(loc.cn) + 1} :
              \E line \in [1..n -> StoredSamples], times \in TimeAxes(n) :
                 /\ src' = [src EXCEPT !.line = line, !.times = times, !.rows = rows]
                 /\ loc' = [loc EXCEPT !.f = "raw"]
                 /\ IF ~Sliceable(line)
                    THEN /\ Raise("IndexError")
                         /\ handles' = HandlesOf("raw", loc.fc)
                         /\ UNCHANGED ret
                    ELSE /\ ret' = [raw |-> SelectRows(rows, loc.is_seeg),
                                    seeg_chan |-> loc.seeg_chan,
                                    trig_event |-> TrigExtract(line, times).trig_event,
                                    trig_time |-> TrigExtract(line, times).trig_time]
                         /\ pc' = "done"
                         /\ handles' = {}
                         /\ UNCHANGED err
    /\ UNCHANGED <<op, log, fs, att>>

\* ------------------------------------------------------------ specification
Next ==
    \/ TrcStart
    \/ TrcContacts
    \/ TrcClassify
    \/ TrcLoad
    \/ PramatStart
    \/ PramatHead
    \/ PramatRaw
    \/ PramatHDF5
    \/ PramatScipy
    \/ PramatMat73
    \/ PramatClassify
    \/ PramatData

Spec == Init /\ [][Next]_vars

\* ===================================================================== claims
IsPramat == op = "read_pramat"

IsTrc == op = "read_trc"

Ended == pc \in {"done", "failed"}

StrictlyIncreasing(t) == \A i \in 1..(Len(t) - 1) : t[i] < t[i + 1]

NoZero(ev) == \A i \in 1..Len(ev) : ev[i] # 0

\* the trigger line as integers, when every stored sample is a whole number
Integral(stored) == \A i \in 1..Len(stored) : stored[i] % 2 = 0

IntLine(stored) == [i \in 1..Len(stored) |-> stored[i] \div 2]

\* the positions i >= 1 (0-based; here i >= 2) with L[i] # L[i-1] and L[i] # 0
Edges(L) == {i \in 2..Len(L) : L[i] # L[i - 1] /\ L[i] # 0}

\* the k-th smallest element of S
Kth(S, k) == CHOOSE i \in S : Cardinality({j \in S : j <= i}) = k

\* C1: for an integer trigger line L and its time axis T, what read_pramat
\* returns as (trig_event, trig_time) is exactly the pairs (L[i], T[i]), in
\* increasing i, over the positions i >= 1 with L[i] # L[i-1] and L[i] # 0.
C1_TriggerExtraction ==
    (IsPramat /\ pc = "done" /\ Integral(src.line)) =>
        LET L == IntLine(src.line)
            E == Edges(L)
        IN /\ Len(ret.trig_event) = Cardinality(E)
           /\ Len(ret.trig_time) = Cardinality(E)
           /\ \A k \in 1..Cardinality(E) :
                /\ ret.trig_event[k] = L[Kth(E, k)]
                /\ ret.trig_time[k] = src.times[Kth(E, k)]

\* C1 witness: a returned call whose line starts on a nonzero code, falls back
\* to zero and rises to another code; only the last edge is reported.
C1_Witness ==
    /\ IsPramat /\ pc = "done" /\ Integral(src.line)
    /\ Len(src.line) = 3
    /\ src.line[1] # 0 /\ src.line[2] = 0 /\ src.line[3] \notin {0, src.line[1]}
    /\ StrictlyIncreasing(src.times)
    /\ Len(ret.trig_event) = 1

\* the raw file has been read: the trigger line of this call is src.line
LineRead == IsPramat /\ loc.f = "raw"

AllSame(L) == \A i, j \in 1..Len(L) : L[i] = L[j]

\* C2: the first sample of the trigger line is never reported, and a line
\* whose samples are all identical, a line of one sample included, gives
\* empty events and times without an error.
C2_EdgeCases ==
    LineRead =>
        /\ (pc = "done" /\ Len(src.line) >= 1 /\ StrictlyIncreasing(src.times))
              => src.times[1] \notin Range(ret.trig_time)
        /\ (Len(src.line) >= 1 /\ AllSame(RoundLine(src.line)))
              => (pc = "done" /\ ret.trig_event = <<>> /\ ret.trig_time = <<>>)

\* C3 as stated: every Recording either reader returns has no zero code,
\* as many events as times, and increasing times when the source axis is.
C3_Original ==
    pc = "done" =>
        /\ NoZero(ret.trig_event)
        /\ Len(ret.trig_event) = Len(ret.trig_time)
        /\ StrictlyIncreasing(src.times) => StrictlyIncreasing(ret.trig_time)

AllZeroDigits(label) == \A i \in 1..Len(label) : label[i] = 0

\* C3 amended: read_pramat's Recording has no zero code, as many events as
\* times, and increasing times when the source axis is; read_trc returns one
\* event per label of the event stream, zero exactly where the label is
\* zero, and the event times unchanged.
C3_RecordingTriggers ==
    /\ (IsPramat /\ pc = "done") =>
          /\ NoZero(ret.trig_event)
          /\ Len(ret.trig_event) = Len(ret.trig_time)
          /\ StrictlyIncreasing(src.times) => StrictlyIncreasing(ret.trig_time)
    /\ (IsTrc /\ pc = "done") =>
          /\ Len(ret.trig_event) = Len(src.labels)
          /\ ret.trig_time = src.times
          /\ \A i \in 1..Len(src.labels) :
                (ret.trig_event[i] = 0) <=> AllZeroDigits(src.labels[i])

\* C3 witness: read_trc returns a zero code and the same code twice in a row.
C3_Witness ==
    /\ IsTrc /\ pc = "done"
    /\ Len(ret.trig_event) = 3
    /\ ret.trig_event[1] = 0
    /\ ret.trig_event[2] = ret.trig_event[3]
    /\ StrictlyIncreasing(ret.trig_time)

AfterScipy == IsPramat /\ pc \in {"pm_mat73", "pm_classify", "pm_data", "done", "failed"}
                       /\ Len(att.tried) > 0

AfterMat73 == IsPramat /\ pc \in {"pm_classify", "pm_data", "done"}

\* C4: when the HDF5 or the scipy attempt raises, at whatever point, the
\* failure is logged and the next backend is tried; and the lists of a
\* backend that yields non-empty lists are the ones the reader goes on with.
C4_FallbackOnException ==
    /\ (AfterScipy /\ "hdf5" \in att.raised) =>
          /\ Len(log) > 0
          /\ "scipy" \in Range(att.tried)
    /\ (AfterMat73 /\ "scipy" \in att.raised) => "mat73" \in Range(att.tried)
    /\ (AfterMat73 /\ att.yielded # {}) =>
          (att.cnFrom \in att.yielded /\ att.ctFrom = att.cnFrom)

RawListed == IsPramat /\ fs.rawDir.exists

Forced == [level |-> "ERROR", msg |-> "Multiple matlab files detected. Forcing iEEG.mat"]

\* C5 as stated: with more than one entry the reader takes iEEG.mat, logs it
\* and does not fail on that account; one entry is used as it is; no entry is
\* an assertion failure.
C5_Original ==
    RawListed =>
        LET files == fs.rawDir.files IN
        /\ Cardinality(files) > 1 =>
              /\ loc.path_raw = "iEEG.mat"
              /\ Forced \in Range(log)
              /\ err # "OSError"
        /\ Cardinality(files) = 1 => (loc.path_raw \in files /\ err # "OSError")
        /\ Cardinality(files) = 0 => (pc = "failed" /\ err = "AssertionError")

\* C5 amended: with more than one entry the reader takes the name iEEG.mat
\* and logs it; the call goes on, and fails when the raw file is opened
\* exactly if iEEG.mat is not one of the entries; one entry is used as it is;
\* no entry is an assertion failure.
C5_RawResolution ==
    RawListed =>
        LET files == fs.rawDir.files IN
        /\ Cardinality(files) > 1 =>
              /\ loc.path_raw = "iEEG.mat"
              /\ Forced \in Range(log)
              /\ "iEEG.mat" \in files => err # "OSError"
              /\ "iEEG.mat" \notin files =>
                    /\ pc # "done"
                    /\ loc.f # "raw"
                    /\ pc = "failed" => err \in {"OSError", "AssertionError", "DecodeError"}
        /\ Cardinality(files) = 1 =>
              /\ loc.path_raw \in files
              /\ err # "OSError"
              /\ Forced \notin Range(log)
        /\ Cardinality(files) = 0 =>
              (pc = "failed" /\ err = "AssertionError" /\ att.tried = <<>>)

\* C5 witness: two entries, iEEG.mat among them, and the call returns.
C5_Witness ==
    /\ RawListed /\ pc = "done"
    /\ fs.rawDir.files = {"a.mat", "iEEG.mat"}
    /\ loc.path_raw = "iEEG.mat"

NothingOpened == handles = {} /\ att.tried = <<>> /\ loc.f = "unbound" /\ loc.fc = "unbound"

HeadListed == IsPramat /\ fs.isdir /\ pc # "pm_head"

\* C6 as stated: a path that is no file is a FileNotFoundError, a root that
\* is no directory a NotADirectoryError, a header directory without exactly
\* one file an AssertionError, each raised before anything is opened.
C6_Original ==
    /\ (IsTrc /\ ~fs.isfile) =>
          (pc = "failed" /\ err = "FileNotFoundError" /\ NothingOpened)
    /\ (IsPramat /\ ~fs.isdir) =>
          (pc = "failed" /\ err = "NotADirectoryError" /\ NothingOpened)
    /\ (HeadListed /\ Cardinality(fs.headDir.files) # 1) =>
          (pc = "failed" /\ err = "AssertionError" /\ NothingOpened)

\* C6 amended: a path that is no file and a root that is no directory are
\* both AssertionErrors; a header directory that lists no file or several is
\* an AssertionError, a missing header directory a FileNotFoundError; each is
\* raised before anything is opened.
C6_InputValidation ==
    /\ (IsTrc /\ ~fs.isfile) =>
          (pc = "failed" /\ err = "AssertionError" /\ NothingOpened)
    /\ (IsPramat /\ ~fs.isdir) =>
          (pc = "failed" /\ err = "AssertionError" /\ NothingOpened)
    /\ (HeadListed /\ fs.headDir.exists /\ Cardinality(fs.headDir.files) # 1) =>
          (pc = "failed" /\ err = "AssertionError" /\ NothingOpened)
    /\ (HeadListed /\ ~fs.headDir.exists) =>
          (pc = "failed" /\ err = "FileNotFoundError" /\ NothingOpened)

\* C6 witness: the header directory lists two files and the call has failed.
C6_Witness ==
    /\ HeadListed /\ pc = "failed"
    /\ Cardinality(fs.headDir.files) = 2

\* the filtering step of a call has run to its end
Filtered == pc = "done" \/ (IsTrc /\ pc = "failed" /\ Len(loc.ch_names) > 0)

TruePositions(mask) == {i \in 1..Len(mask) : mask[i]}

\* C7: for every mask, none true included, the readers return one raw row per
\* returned name, the i-th row being the channel of the i-th name; the names
\* are those at the true positions of the mask, in order; and the trigger row
\* of the matrix format is not returned.
C7_ChannelFiltering ==
    Filtered =>
        LET T == TruePositions(loc.is_seeg) IN
        /\ pc = "done"
        /\ Len(ret.raw) = Len(ret.seeg_chan)
        /\ Len(ret.seeg_chan) = Cardinality(T)
        /\ \A k \in 1..Cardinality(T) :
              /\ ret.seeg_chan[k] = loc.ch_names[Kth(T, k)]
              /\ ret.raw[k] = Kth(T, k)
        /\ IsPramat => src.rows \notin Range(ret.raw)

\* C8: a handle opened by a header attempt is closed when the attempt ends,
\* and no handle is open when the call has returned or failed.
C8_HandlesClosed ==
    /\ (IsPramat /\ pc \in {"pm_scipy", "pm_mat73", "pm_classify"}) => handles = {}
    /\ Ended => handles = {}

HeaderDone == IsPramat /\ Ended /\ Len(att.tried) > 0

\* C9 as stated: when no backend yields a non-empty name and type list, the
\* call ends in an assertion failure, before the raw file is opened.
C9_Original ==
    (HeaderDone /\ att.yielded = {}) =>
        (pc = "failed" /\ err = "AssertionError" /\ loc.f # "raw")

\* C9 amended: when no backend yields a non-empty name and type list, the
\* call fails before the raw file is opened: with the exception of the mat73
\* attempt if that attempt raised, with an assertion failure otherwise.
C9_ExhaustedChain ==
    (HeaderDone /\ att.yielded = {}) =>
        /\ pc = "failed"
        /\ loc.f # "raw"
        /\ err = IF "mat73" \in att.raised THEN "DecodeError" ELSE "AssertionError"

\* C9 witness: HDF5 and scipy raised, mat73 returned empty lists, and the
\* call failed on the assertions.
C9_Witness ==
    /\ HeaderDone /\ att.yielded = {}
    /\ att.tried = <<"hdf5", "scipy", "mat73">>
    /\ att.raised = {"hdf5", "scipy"}
    /\ err = "AssertionError"

PastHeader == IsPramat /\ Len(loc.ch_names) > 0

\* C10: past header decoding, cn and ct come from one and the same backend
\* attempt, are non-empty and of equal length, and that backend is the last
\* one that was invoked.
C10_SingleBackend ==
    PastHeader =>
        /\ att.cnFrom # "none"
        /\ att.cnFrom = att.ctFrom
        /\ Len(loc.cn) > 0
        /\ Len(loc.cn) = Len(loc.ct)
        /\ att.tried[Len(att.tried)] = att.cnFrom
        /\ att.cnFrom \in att.yielded

\* C10 witness: the lists come from scipy, after an HDF5 attempt that raised.
C10_Witness ==
    /\ PastHeader
    /\ att.tried = <<"hdf5", "scipy">>
    /\ "hdf5" \in att.raised
    /\ att.cnFrom = "scipy"

====
